---- MODULE Spec2Model ----
(***************************************************************************)
(* Model of the UAS_GPXandJPG_processing notebook: a linear pipeline that  *)
(* parses a GPX telemetry log into a table, exports it, lists the photos   *)
(* of an image folder, computes standardized names, copies the folder and  *)
(* renames the photos, and calls ExifTool twice.                           *)
(*                                                                         *)
(* Text is modelled by TLA+ strings; a file name is the pair (stem, ext)   *)
(* that os.path.splitext would return.  Numeric texts are two-digit        *)
(* decimal integers.  A dataframe cell is a record with a kind.            *)
(***************************************************************************)
EXTENDS Integers, Sequences, FiniteSets, TLC

VARIABLES
    logfile_exists, \* os.path.isfile(logfile)
    gpxfile,        \* the trkpt elements of the GPX file, in document order
    fs,             \* directory path -> [exists, files]
    fs0,            \* history: fs when the notebook was opened
    fsR,            \* history: fs when the Image Rename cell last started
    pc,             \* the cell (or step of the rename cell) to run next
    mode,           \* "all": the cells run in order; "cell": one cell is run alone
    run,            \* number of the current run
    renamed_once,   \* the Image Rename cell has completed at least once
    gpxdf,          \* telemetry dataframe
    navcsv,         \* telemetry CSV file (navcsvoutfile)
    gpxplot,        \* the flight path PNG has been saved
    toolcalls,      \* ExifTool invocations of the current run
    flist,          \* listing of the JPEGs of imagefolder
    imgdf,          \* photo dataframe
    imgcsv,         \* photo CSV file (imgcsvoutfile)
    copying,        \* files shutil.copytree has still to copy
    idx             \* position of the rename loop in imgdf

vars == <<logfile_exists, gpxfile, fs, fs0, fsR, pc, mode, run, renamed_once,
          gpxdf, navcsv, gpxplot, toolcalls, flist, imgdf, imgcsv, copying, idx>>

----------------------------------------------------------------------------
(* Bounds *)

MaxPts == 2
MaxPhotos == 2
MaxRuns == 2

----------------------------------------------------------------------------
(* Input variables cell *)

imagefolder == "f1"
imgoutdir_inplace == imagefolder
imgoutdir == imagefolder \o "_new"
fan == <<"2", "0", "1", "8", "-", "0", "1", "5", "-", "F", "A">>
flight_id == "f06"
cam_id == "r01"

Dirs == {imagefolder, imgoutdir}

----------------------------------------------------------------------------
(* Text helpers *)

Digit == <<"0", "1", "2", "3", "4", "5", "6", "7", "8", "9">>

Pad2(n) == Digit[(n \div 10) + 1] \o Digit[(n % 10) + 1]

Pad4(n) == Pad2(n \div 100) \o Pad2(n % 100)

RECURSIVE Join(_)
Join(s) == IF s = <<>> THEN "" ELSE Head(s) \o Join(Tail(s))

\* str.replace(old, ""), for a one-character old
ReplaceFirstOnly(s, old) ==
    LET hit == {i \in 1..Len(s) : s[i] = old}
    IN  IF hit = {} THEN Join(s)
        ELSE LET k == CHOOSE i \in hit : \A j \in hit : i <= j
             IN  Join(SubSeq(s, 1, k - 1) \o SubSeq(s, k + 1, Len(s)))

Replace(s, old) == Join(SelectSeq(s, LAMBDA c : c # old))

\* str.lower() of a file extension
Lower(ext) ==
    CASE ext = ".JPG" -> ".jpg"
      [] ext = ".Jpg" -> ".jpg"
      [] ext = ".TXT" -> ".txt"
      [] OTHER -> ext

FullName(n) == n.stem \o n.ext

----------------------------------------------------------------------------
(* Dataframe cells *)

NaN == [kind |-> "nan", num |-> 0, str |-> ""]
NaT == [kind |-> "nat", num |-> 0, str |-> ""]
NaTInt == [kind |-> "natint", num |-> 0, str |-> ""]
Unset == [kind |-> "unset", num |-> 0, str |-> ""]
Num(n) == [kind |-> "num", num |-> n, str |-> ""]
Str(s) == [kind |-> "str", num |-> 0, str |-> s]
Stamp(n) == [kind |-> "datetime", num |-> n, str |-> ""]

IsNull(c) == c.kind \in {"nan", "nat"}

IsNumericText(t) == \E n \in 0..99 : Pad2(n) = t

NumericValue(t) == CHOOSE n \in 0..99 : Pad2(n) = t

\* pd.to_numeric of one column: None becomes NaN, a text that does not
\* parse raises (errors='raise') or leaves the whole column as it was
\* (errors='ignore')
CanNumeric(col) ==
    \A i \in 1..Len(col) : col[i].kind = "str" => IsNumericText(col[i].str)

ToNumeric(col) ==
    IF CanNumeric(col)
    THEN [i \in 1..Len(col) |->
            IF col[i].kind = "str" THEN Num(NumericValue(col[i].str)) ELSE col[i]]
    ELSE col

----------------------------------------------------------------------------
(* The GPX file: trkpt elements with their attributes and child elements *)

taglist == <<"time", "ele", "ele2", "course", "roll", "pitch", "mode">>

OptionalTags == {"ele", "ele2", "course", "roll", "pitch", "mode"}

Absent == "<absent>"

ModeText == <<"Manual", "Auto", "RTL", "Land", "Loiter", "Guided">>

GpxTimeText(k) == "2018-06-01T12:00:0" \o Digit[k + 1]

TagText(tag, i) ==
    CASE tag = "time" -> GpxTimeText(i - 1)
      [] tag = "ele" -> Pad2(10 + i)
      [] tag = "ele2" -> Pad2(20 + i)
      [] tag = "course" -> Pad2(30 + i)
      [] tag = "roll" -> Pad2(50 + i)
      [] tag = "pitch" -> Pad2(60 + i)
      [] tag = "mode" -> ModeText[i]

PointKinds ==
    {"full", "no_ele", "no_mode", "bare", "no_time", "bad_time", "no_lon", "bad_lat"}

MissingTags(kind) ==
    CASE kind = "no_ele" -> {"ele"}
      [] kind = "no_mode" -> {"mode"}
      [] kind = "bare" -> OptionalTags
      [] kind = "no_time" -> {"time"}
      [] OTHER -> {}

\* the i-th trkpt of a file, of the given kind
TrkPt(i, kind) ==
    [attrs |-> CASE kind = "no_lon" -> <<Pad2(40 + i)>>
                 [] kind = "bad_lat" -> <<"north", Pad2(70 + i)>>
                 [] OTHER -> <<Pad2(40 + i), Pad2(70 + i)>>,
     child |-> [tag \in {taglist[k] : k \in 1..Len(taglist)} |->
                  IF tag \in MissingTags(kind) THEN Absent
                  ELSE IF tag = "time" /\ kind = "bad_time" THEN "12:00 noon"
                  ELSE TagText(tag, i)]]

GpxFiles ==
    UNION {{[i \in 1..n |-> TrkPt(i, ks[i])] : ks \in [1..n -> PointKinds]} : n \in 0..MaxPts}

DefaultGpx == [i \in 1..2 |-> TrkPt(i, "full")]

----------------------------------------------------------------------------
(* Parse GPX file and extract components into dataframe *)

EmptyRow ==
    [lat |-> Unset, lon |-> Unset, time |-> Unset, ele |-> Unset, ele2 |-> Unset,
     course |-> Unset, roll |-> Unset, pitch |-> Unset, mode |-> Unset,
     datetime_utc |-> Unset, epoch_utc |-> Unset]

\* tree.xpath(...//def:tag): the matching elements of the whole tree, in
\* document order, as a Series indexed from the first match
gpx_tag_to_pdseries(tree, tag) ==
    LET elist == SelectSeq(tree, LAMBDA e : e.child[tag] # Absent)
    IN  [k \in 1..Len(elist) |-> Str(elist[k].child[tag])]

\* DataFrame.join(Series): a left join on the index
JoinInner(df, tag, ser) ==
    [i \in 1..(IF Len(ser) < Len(df) THEN Len(ser) ELSE Len(df)) |->
        [df[i] EXCEPT ![tag] = ser[i]]]

DataFrameJoin(df, tag, ser) ==
    [i \in 1..Len(df) |->
        [df[i] EXCEPT ![tag] = IF i <= Len(ser) THEN ser[i] ELSE NaN]]

RECURSIVE JoinTags(_, _, _)
JoinTags(df, tree, tags) ==
    IF tags = <<>> THEN df
    ELSE JoinTags(DataFrameJoin(df, Head(tags), ToNumeric(gpx_tag_to_pdseries(tree, Head(tags)))),
                  tree, Tail(tags))

\* pd.DataFrame([e.values() for e in elist], columns=['lat', 'lon']): short
\* rows are padded with None; the widest row must have two values
AttrWidth(tree) ==
    IF tree = <<>> THEN 0
    ELSE CHOOSE w \in {Len(tree[i].attrs) : i \in 1..Len(tree)} :
            \A i \in 1..Len(tree) : Len(tree[i].attrs) <= w

AttrCol(tree, k) ==
    [i \in 1..Len(tree) |->
        IF k <= Len(tree[i].attrs) THEN Str(tree[i].attrs[k]) ELSE NaN]

ParseFails(tree) ==
    \/ tree # <<>> /\ AttrWidth(tree) # 2
    \/ ~CanNumeric(AttrCol(tree, 1))
    \/ ~CanNumeric(AttrCol(tree, 2))

LatLonFrame(tree) ==
    LET lat == ToNumeric(AttrCol(tree, 1))
        lon == ToNumeric(AttrCol(tree, 2))
    IN  [i \in 1..Len(tree) |-> [EmptyRow EXCEPT !.lat = lat[i], !.lon = lon[i]]]

ParsedTable(tree) == JoinTags(LatLonFrame(tree), tree, taglist)

----------------------------------------------------------------------------
(* Add datetime field to gpxdf dataframe *)

GpxEpoch0 == 1527854400

IsGpxTime(s) == \E k \in 0..9 : s = GpxTimeText(k)

ParseGpxTime(s) ==
    GpxEpoch0 + (CHOOSE k \in 0..9 : s = GpxTimeText(k))

\* pd.to_datetime(column, format=tfmt_gpx): a null gives NaT, a text that
\* does not match the format raises
DatetimeFails(df) ==
    \E i \in 1..Len(df) :
        /\ ~IsNull(df[i].time)
        /\ ~(df[i].time.kind = "str" /\ IsGpxTime(df[i].time.str))

ToDatetime(c) == IF IsNull(c) THEN NaT ELSE Stamp(ParseGpxTime(c.str))

\* astype(np.int64) // 10**9: whole seconds; NaT gives the integer that
\* stands for it
ToEpoch(c) == IF c.kind = "nat" THEN NaTInt ELSE Num(c.num)

WithDatetime(df) ==
    [i \in 1..Len(df) |->
        [df[i] EXCEPT !.datetime_utc = ToDatetime(df[i].time),
                      !.epoch_utc = ToEpoch(ToDatetime(df[i].time))]]

----------------------------------------------------------------------------
(* The file system: each directory holds files, a file is a name with data *)

JpgPool ==
    {[stem |-> "IMG_0001", ext |-> ".jpg"],
     [stem |-> "IMG_0002", ext |-> ".JPG"],
     [stem |-> "DSC_0003", ext |-> ".jpg"]}

OtherFile == [stem |-> "notes", ext |-> ".txt"]

NoExif == "<none>"

ExifPool == {"2018:06:01 12:00:01", "2017:5:4 14:14:12", NoExif}

NoDir == [exists |-> FALSE, files |-> {}]

Names(dir) == {f.name : f \in dir.files}

HasFile(dir, n) == n \in Names(dir)

FileAt(dir, n) == CHOOSE f \in dir.files : f.name = n

FsRemove(f, d, n) ==
    [f EXCEPT ![d].files = {x \in @ : x.name # n}]

\* writing a file replaces a file of the same name
FsPut(f, d, n, data) ==
    [f EXCEPT ![d].files = {x \in @ : x.name # n} \cup {[name |-> n, data |-> data]}]

\* os.rename(src, dst) for an existing source file
OsRename(f, sd, sn, dd, dn) ==
    FsPut(FsRemove(f, sd, sn), dd, dn, FileAt(f[sd], sn).data)

IsJpg(n) == Lower(n.ext) = ".jpg"

\* ExifTool writes its tags into every image of the target directory
ExifToolWrite(f, d, tag) ==
    [f EXCEPT ![d].files =
        {IF IsJpg(x.name) THEN [x EXCEPT !.data.tags = @ \cup {tag}] ELSE x : x \in @}]

Photo(n, exif) ==
    [name |-> n, data |-> [photo |-> FullName(n), exif |-> exif, tags |-> {}]]

\* image folders with at most MaxPhotos photos and possibly another file
ImageFolders ==
    UNION {{[exists |-> TRUE,
             files |-> {Photo(n, ex[n]) : n \in S} \cup other] :
              ex \in [S -> ExifPool],
              other \in {{}, {Photo(OtherFile, NoExif)}}} :
           S \in {T \in SUBSET JpgPool : Cardinality(T) <= MaxPhotos}}

DefaultFolder ==
    [exists |-> TRUE,
     files |-> {Photo([stem |-> "IMG_0001", ext |-> ".jpg"], "2018:06:01 12:00:01")}]

\* the output folder before the first run: missing, empty, or left over
OutFolders ==
    {NoDir,
     [exists |-> TRUE, files |-> {}],
     [exists |-> TRUE,
      files |-> {[name |-> [stem |-> "IMG_0001", ext |-> ".jpg"],
                  data |-> [photo |-> "left over", exif |-> NoExif, tags |-> {}]]}]}

MkFs(src, out) == [d \in Dirs |-> IF d = imagefolder THEN src ELSE out]

----------------------------------------------------------------------------
(* Photo dataframe *)

CanStrptime(s) == s \in {"2018:06:01 12:00:01", "2018:06:01 12:00:02", "2017:5:4 14:14:12"}

\* datetime.strptime(s, tfmt_exif): one or two digits are accepted per field
Strptime(s) ==
    CASE s = "2018:06:01 12:00:01" -> <<2018, 6, 1, 12, 0, 1>>
      [] s = "2018:06:01 12:00:02" -> <<2018, 6, 1, 12, 0, 2>>
      [] s = "2017:5:4 14:14:12" -> <<2017, 5, 4, 14, 14, 12>>

\* t.strftime(iso_fmt), iso_fmt = "%Y%m%dT%H%M%SZ"
Strftime(t) ==
    Pad4(t[1]) \o Pad2(t[2]) \o Pad2(t[3]) \o "T" \o Pad2(t[4]) \o Pad2(t[5]) \o Pad2(t[6]) \o "Z"

NoName == [stem |-> "", ext |-> ""]

Perms(S) ==
    {p \in [1..Cardinality(S) -> S] : \A x \in S : \E i \in 1..Cardinality(S) : p[i] = x}

ImgdfFails(dir, fl) ==
    \E i \in 1..Len(fl) : ~CanStrptime(FileAt(dir, fl[i]).data.exif)

MakeImgdfRows(dir, fl) ==
    [i \in 1..Len(fl) |->
        LET dt == Strptime(FileAt(dir, fl[i]).data.exif)
        IN  [orig_name |-> fl[i], time_utc |-> dt, time_iso |-> Strftime(dt),
             new_name |-> NoName]]

----------------------------------------------------------------------------
(* Image Rename *)

surveyid_first == ReplaceFirstOnly(fan, "-")
surveyid == Replace(fan, "-")

namestr_no_orig(row) ==
    [stem |-> surveyid \o "_" \o flight_id \o cam_id \o "_" \o row.time_iso,
     ext |-> row.orig_name.ext]

namestr_time_only(row) ==
    [stem |-> row.time_iso, ext |-> row.orig_name.ext]

namestr(row) ==
    [stem |-> surveyid \o "_" \o flight_id \o cam_id \o "_" \o row.time_iso
              \o "_" \o row.orig_name.stem,
     ext |-> row.orig_name.ext]

----------------------------------------------------------------------------
(* Initial states: one GPX file and one image folder, before the first run *)

NoCsv == [written |-> FALSE, rows |-> <<>>]

Init ==
    /\ \/ /\ logfile_exists = TRUE
          /\ gpxfile \in GpxFiles
          /\ fs = MkFs(DefaultFolder, NoDir)
       \/ /\ logfile_exists = FALSE
          /\ gpxfile = <<>>
          /\ fs = MkFs(DefaultFolder, NoDir)
       \/ /\ logfile_exists = TRUE
          /\ gpxfile = DefaultGpx
          /\ \E src \in ImageFolders \cup {NoDir}, out \in OutFolders : fs = MkFs(src, out)
    /\ fs0 = fs
    /\ fsR = fs
    /\ pc = "verify"
    /\ mode = "all"
    /\ run = 1
    /\ renamed_once = FALSE
    /\ gpxdf = <<>>
    /\ navcsv = NoCsv
    /\ gpxplot = FALSE
    /\ toolcalls = <<>>
    /\ flist = <<>>
    /\ imgdf = <<>>
    /\ imgcsv = NoCsv
    /\ copying = {}
    /\ idx = 1

----------------------------------------------------------------------------
(* The cells, in notebook order *)

\* Verify the user input data: the operator's answer, then the logfile check
VerifyInput ==
    /\ pc = "verify"
    /\ \E answer \in {"y", "n"} :
          pc' = IF answer = "n" \/ ~logfile_exists THEN "exit" ELSE "parse"
    /\ UNCHANGED <<logfile_exists, gpxfile, fs, fs0, fsR, mode, run, renamed_once, gpxdf,
                   navcsv, gpxplot, toolcalls, flist, imgdf, imgcsv, copying, idx>>

ParseGPX ==
    /\ pc = "parse"
    /\ IF ParseFails(gpxfile)
       THEN pc' = "error" /\ UNCHANGED gpxdf
       ELSE pc' = "time" /\ gpxdf' = ParsedTable(gpxfile)
    /\ UNCHANGED <<logfile_exists, gpxfile, fs, fs0, fsR, mode, run, renamed_once,
                   navcsv, gpxplot, toolcalls, flist, imgdf, imgcsv, copying, idx>>

AddDatetime ==
    /\ pc = "time"
    /\ IF DatetimeFails(gpxdf)
       THEN pc' = "error" /\ UNCHANGED gpxdf
       ELSE pc' = "export" /\ gpxdf' = WithDatetime(gpxdf)
    /\ UNCHANGED <<logfile_exists, gpxfile, fs, fs0, fsR, mode, run, renamed_once,
                   navcsv, gpxplot, toolcalls, flist, imgdf, imgcsv, copying, idx>>

\* Export (csv) and plot (png) the GPX data
ExportGPX ==
    /\ pc = "export"
    /\ navcsv' = [written |-> TRUE, rows |-> gpxdf]
    /\ gpxplot' = TRUE
    /\ pc' = "basemap"
    /\ UNCHANGED <<logfile_exists, gpxfile, fs, fs0, fsR, mode, run, renamed_once, gpxdf,
                   toolcalls, flist, imgdf, imgcsv, copying, idx>>

\* Plot GPX on basemap: max() and min() of an empty column raise
PlotBasemap ==
    /\ pc = "basemap"
    /\ pc' = IF Len(gpxdf) = 0 THEN "error" ELSE "geotag"
    /\ UNCHANGED <<logfile_exists, gpxfile, fs, fs0, fsR, mode, run, renamed_once, gpxdf,
                   navcsv, gpxplot, toolcalls, flist, imgdf, imgcsv, copying, idx>>

\* ExifTool -geotag: the exit status is the tool's; a missing directory fails
Geotag ==
    /\ pc = "geotag"
    /\ toolcalls' = Append(toolcalls, [tool |-> "geotag", target |-> imagefolder])
    /\ \E ok \in BOOLEAN :
          /\ ok => fs[imagefolder].exists
          /\ IF ok
             THEN fs' = ExifToolWrite(fs, imagefolder, "gps") /\ pc' = "list"
             ELSE fs' = fs /\ pc' = "error"
    /\ UNCHANGED <<logfile_exists, gpxfile, fs0, fsR, mode, run, renamed_once, gpxdf,
                   navcsv, gpxplot, flist, imgdf, imgcsv, copying, idx>>

\* List all JPEGS in imagefolder: os.listdir gives the names in any order
ListJPEGs ==
    /\ pc = "list"
    /\ IF ~fs[imagefolder].exists
       THEN pc' = "error" /\ UNCHANGED flist
       ELSE /\ flist' \in Perms({n \in Names(fs[imagefolder]) : IsJpg(n)})
            /\ pc' = "imgdf"
    /\ UNCHANGED <<logfile_exists, gpxfile, fs, fs0, fsR, mode, run, renamed_once, gpxdf,
                   navcsv, gpxplot, toolcalls, imgdf, imgcsv, copying, idx>>

\* Make dataframe of photos
MakeImgdf ==
    /\ pc = "imgdf"
    /\ IF ImgdfFails(fs[imagefolder], flist)
       THEN pc' = "error" /\ UNCHANGED imgdf
       ELSE pc' = "imgcsv" /\ imgdf' = MakeImgdfRows(fs[imagefolder], flist)
    /\ UNCHANGED <<logfile_exists, gpxfile, fs, fs0, fsR, mode, run, renamed_once, gpxdf,
                   navcsv, gpxplot, toolcalls, flist, imgcsv, copying, idx>>

\* Export CSV for original photo EXIF times, then print the first and last
\* records: iloc[0] of an empty column raises
ExportImgCSV ==
    /\ pc = "imgcsv"
    /\ imgcsv' = [written |-> TRUE, rows |-> imgdf]
    /\ pc' = IF Len(imgdf) = 0 \/ Len(gpxdf) = 0 THEN "error" ELSE "plottimes"
    /\ UNCHANGED <<logfile_exists, gpxfile, fs, fs0, fsR, mode, run, renamed_once, gpxdf,
                   navcsv, gpxplot, toolcalls, flist, imgdf, copying, idx>>

\* Plot times of image vs GPX data
PlotTimes ==
    /\ pc = "plottimes"
    /\ pc' = "rename"
    /\ UNCHANGED <<logfile_exists, gpxfile, fs, fs0, fsR, mode, run, renamed_once, gpxdf,
                   navcsv, gpxplot, toolcalls, flist, imgdf, imgcsv, copying, idx>>

----------------------------------------------------------------------------
(* Image Rename cell, one file operation per step *)

AfterLoop == IF mode = "cell" THEN "done" ELSE "whsc"

\* where the cell stands once the copy is over and i is the next row
LoopPc(i) == IF i > Len(imgdf) THEN AfterLoop ELSE "loop"

\* if not os.path.exists(imgoutdir): shutil.copytree(imagefolder, imgoutdir)
RenameStart ==
    /\ pc = "rename"
    /\ fsR' = fs
    /\ idx' = 1
    /\ IF fs[imgoutdir].exists
       THEN /\ pc' = LoopPc(1)
            /\ renamed_once' = (renamed_once \/ Len(imgdf) = 0)
            /\ UNCHANGED <<fs, copying>>
       ELSE IF ~fs[imagefolder].exists
       THEN /\ pc' = "error"
            /\ UNCHANGED <<fs, copying, renamed_once>>
       ELSE /\ fs' = [fs EXCEPT ![imgoutdir] = [exists |-> TRUE, files |-> {}]]
            /\ copying' = Names(fs[imagefolder])
            /\ pc' = IF copying' = {} THEN LoopPc(1) ELSE "copy"
            /\ renamed_once' = (renamed_once \/ (copying' = {} /\ Len(imgdf) = 0))
    /\ UNCHANGED <<logfile_exists, gpxfile, fs0, mode, run, gpxdf,
                   navcsv, gpxplot, toolcalls, flist, imgdf, imgcsv>>

\* shutil.copytree copies one more file
CopyFile ==
    /\ pc = "copy"
    /\ \E n \in copying :
          /\ fs' = FsPut(fs, imgoutdir, n, FileAt(fs[imagefolder], n).data)
          /\ copying' = copying \ {n}
    /\ pc' = IF copying' = {} THEN LoopPc(1) ELSE "copy"
    /\ renamed_once' = (renamed_once \/ (copying' = {} /\ Len(imgdf) = 0))
    /\ UNCHANGED <<logfile_exists, gpxfile, fs0, fsR, mode, run, gpxdf,
                   navcsv, gpxplot, toolcalls, flist, imgdf, imgcsv, idx>>

\* one iteration of the loop over imgdf: os.rename raises when the source
\* file is missing
RenameOne ==
    /\ pc = "loop"
    /\ LET row == imgdf[idx]
           img == row.orig_name
       IN  IF ~HasFile(fs[imagefolder], img)
           THEN /\ pc' = "error"
                /\ UNCHANGED <<fs, imgdf, idx, renamed_once>>
           ELSE /\ fs' = OsRename(fs, imagefolder, img, imgoutdir, namestr(row))
                /\ imgdf' = [imgdf EXCEPT ![idx].new_name = namestr(row)]
                /\ idx' = idx + 1
                /\ pc' = LoopPc(idx + 1)
                /\ renamed_once' = (renamed_once \/ idx + 1 > Len(imgdf))
    /\ UNCHANGED <<logfile_exists, gpxfile, fs0, fsR, mode, run, gpxdf,
                   navcsv, gpxplot, toolcalls, flist, imgcsv, copying>>

\* write_WHSC_exiftags(imgoutdir, ...)
write_WHSC_exiftags ==
    /\ pc = "whsc"
    /\ toolcalls' = Append(toolcalls, [tool |-> "whsc", target |-> imgoutdir])
    /\ \E ok \in BOOLEAN :
          /\ ok => fs[imgoutdir].exists
          /\ IF ok
             THEN fs' = ExifToolWrite(fs, imgoutdir, "whsc") /\ pc' = "done"
             ELSE fs' = fs /\ pc' = "error"
    /\ UNCHANGED <<logfile_exists, gpxfile, fs0, fsR, mode, run, renamed_once, gpxdf,
                   navcsv, gpxplot, flist, imgdf, imgcsv, copying, idx>>

----------------------------------------------------------------------------
(* The operator runs the notebook, or the rename cell, again *)

RerunAll ==
    /\ pc = "done"
    /\ run < MaxRuns
    /\ pc' = "verify"
    /\ mode' = "all"
    /\ run' = run + 1
    /\ toolcalls' = <<>>
    /\ UNCHANGED <<logfile_exists, gpxfile, fs, fs0, fsR, renamed_once, gpxdf,
                   navcsv, gpxplot, flist, imgdf, imgcsv, copying, idx>>

RerunRenameCell ==
    /\ pc \in {"done", "error"}
    /\ renamed_once
    /\ run < MaxRuns
    /\ pc' = "rename"
    /\ mode' = "cell"
    /\ run' = run + 1
    /\ toolcalls' = <<>>
    /\ UNCHANGED <<logfile_exists, gpxfile, fs, fs0, fsR, renamed_once, gpxdf,
                   navcsv, gpxplot, flist, imgdf, imgcsv, copying, idx>>

\* the kernel is interrupted between two file operations of the rename cell
Interrupt ==
    /\ pc \in {"copy", "loop"}
    /\ pc' = "interrupted"
    /\ UNCHANGED <<logfile_exists, gpxfile, fs, fs0, fsR, mode, run, renamed_once, gpxdf,
                   navcsv, gpxplot, toolcalls, flist, imgdf, imgcsv, copying, idx>>

\* after an interruption the operator runs the notebook or the rename cell again
ResumeAfterInterrupt ==
    /\ pc = "interrupted"
    /\ run < MaxRuns
    /\ \E m \in {"all", "cell"} :
          /\ mode' = m
          /\ pc' = IF m = "all" THEN "verify" ELSE "rename"
    /\ run' = run + 1
    /\ toolcalls' = <<>>
    /\ UNCHANGED <<logfile_exists, gpxfile, fs, fs0, fsR, renamed_once, gpxdf,
                   navcsv, gpxplot, flist, imgdf, imgcsv, copying, idx>>

Next ==
    \/ VerifyInput
    \/ ParseGPX
    \/ AddDatetime
    \/ ExportGPX
    \/ PlotBasemap
    \/ Geotag
    \/ ListJPEGs
    \/ MakeImgdf
    \/ ExportImgCSV
    \/ PlotTimes
    \/ RenameStart
    \/ CopyFile
    \/ RenameOne
    \/ write_WHSC_exiftags
    \/ RerunAll
    \/ RerunRenameCell
    \/ Interrupt
    \/ ResumeAfterInterrupt

Spec == Init /\ [][Next]_vars

----------------------------------------------------------------------------
(* Properties *)

\* the cells after the GPX parse cell: gpxdf is the table built from gpxfile
PostParse ==
    pc \in {"time", "export", "basemap", "geotag", "list", "imgdf", "imgcsv",
            "plottimes", "rename", "copy", "loop", "whsc", "done"}

\* the dataframe cell c holds the text t, as text or as its number
CellHolds(c, t) ==
    \/ c.kind = "str" /\ c.str = t
    \/ c.kind = "num" /\ IsNumericText(t) /\ c.num = NumericValue(t)

\* C1: during and after the copy-then-rename step of the first run, the
\* source image folder holds the same files under the same names as when
\* the step started.
C1_SourceFolderUntouched ==
    (run = 1 /\ pc \in {"copy", "loop", "whsc", "done"})
        => fs[imagefolder] = fsR[imagefolder]

\* C2: when the output folder did not exist beforehand, after the rename
\* step of the first run the image files of the output folder are exactly
\* the N new names of the photo table, none under an original name.
C2_OutputIsRenamedCopy ==
    (run = 1 /\ pc \in {"whsc", "done"} /\ ~fs0[imgoutdir].exists)
        => LET jpgs == {n \in Names(fs[imgoutdir]) : IsJpg(n)}
           IN  /\ jpgs = {imgdf[i].new_name : i \in 1..Len(imgdf)}
               /\ Cardinality(jpgs) = Len(imgdf)
               /\ \A i \in 1..Len(imgdf) : imgdf[i].orig_name \notin jpgs

\* a name that carries the survey/flight/camera/time prefix twice
IsoTimes == {Strftime(Strptime(e)) : e \in {x \in ExifPool : CanStrptime(x)}}

DoublePrefixed(n) ==
    \E t1 \in IsoTimes, t2 \in IsoTimes, o \in JpgPool :
        n = namestr([time_iso |-> t2,
                     orig_name |-> namestr([time_iso |-> t1, orig_name |-> o])])

\* C3: once the rename step has completed, no step of a later execution of
\* it changes the file system (it does nothing, or it stops with an error
\* before changing anything), and no file ever carries the prefix twice.
C3_RerunNoOpOrError ==
    /\ [](\A d \in Dirs : \A n \in Names(fs[d]) : ~DoublePrefixed(n))
    /\ [][(renamed_once /\ pc \in {"rename", "copy", "loop"}) => fs' = fs]_vars

C3_Witness ==
    /\ renamed_once
    /\ run >= 2
    /\ mode = "cell"
    /\ pc = "error"
    /\ imgdf # <<>>
    /\ \E i \in 1..Len(imgdf) : HasFile(fs[imgoutdir], imgdf[i].new_name)

\* C4: the tagging tool is only invoked after the rename step, on the output
\* folder: geotag first, then the descriptive tags, two invocations per run.
C4_TaggingAfterRename ==
    /\ \A k \in 1..Len(toolcalls) : toolcalls[k].target = imgoutdir
    /\ toolcalls # <<>> =>
          pc \notin {"list", "imgdf", "imgcsv", "plottimes", "rename", "copy", "loop"}
    /\ (pc = "done" /\ mode = "all") =>
          toolcalls = <<[tool |-> "geotag", target |-> imgoutdir],
                        [tool |-> "whsc", target |-> imgoutdir]>>

\* C5: row i of the telemetry table holds, for each optional field, the
\* value of the i-th trkpt's own child element, and null exactly when that
\* trkpt has no such child.
C5_OptionalFieldsOwnRow ==
    PostParse =>
        \A i \in 1..Len(gpxfile) : \A tag \in OptionalTags :
            /\ i <= Len(gpxdf)
            /\ IF gpxfile[i].child[tag] = Absent
               THEN gpxdf[i][tag] = NaN
               ELSE CellHolds(gpxdf[i][tag], gpxfile[i].child[tag])

\* C6: the telemetry table has one row per trkpt element, in document
\* order: row i carries the latitude of the i-th trkpt, whatever children
\* the trackpoints have.
C6_OneRowPerTrkpt ==
    PostParse =>
        /\ Len(gpxdf) = Len(gpxfile)
        /\ \A i \in 1..Len(gpxfile) : CellHolds(gpxdf[i].lat, gpxfile[i].attrs[1])

C6_Witness ==
    /\ pc = "time"
    /\ Len(gpxfile) = 2
    /\ Len(gpxdf) = 2
    /\ \A tag \in OptionalTags : gpxfile[1].child[tag] = Absent
    /\ gpxfile[2].child["ele"] # Absent

\* the compact ISO text of the capture times of the photo pool
IsoText(t) ==
    CASE t = <<2018, 6, 1, 12, 0, 1>> -> "20180601T120001Z"
      [] t = <<2018, 6, 1, 12, 0, 2>> -> "20180601T120002Z"
      [] t = <<2017, 5, 4, 14, 14, 12>> -> "20170504T141412Z"

\* C7: every assigned new_name is 2018015FA (the survey identifier without
\* '-'), '_', f06r01, '_', the capture time as YYYYMMDDTHHMMSSZ, '_', and
\* the original filename; IMG_0001.jpg taken at 2018:06:01 12:00:01 becomes
\* 2018015FA_f06r01_20180601T120001Z_IMG_0001.jpg.
C7_NewFilenameFormat ==
    \A i \in 1..Len(imgdf) :
        imgdf[i].new_name # NoName =>
            /\ FullName(imgdf[i].new_name) =
                  "2018015FA" \o "_" \o "f06" \o "r01" \o "_" \o IsoText(imgdf[i].time_utc)
                      \o "_" \o FullName(imgdf[i].orig_name)
            /\ (/\ FullName(imgdf[i].orig_name) = "IMG_0001.jpg"
                /\ imgdf[i].time_utc = <<2018, 6, 1, 12, 0, 1>>)
                  => FullName(imgdf[i].new_name)
                        = "2018015FA_f06r01_20180601T120001Z_IMG_0001.jpg"

C7_Witness ==
    \E i \in 1..Len(imgdf) :
        /\ imgdf[i].new_name # NoName
        /\ FullName(imgdf[i].orig_name) = "IMG_0001.jpg"
        /\ imgdf[i].time_utc = <<2018, 6, 1, 12, 0, 1>>
        /\ HasFile(fs[imgoutdir], imgdf[i].new_name)

\* C8: photos with distinct original filenames get distinct new names,
\* whatever their capture times.
C8_NewNamesDistinct ==
    \A i \in 1..Len(imgdf) : \A j \in 1..Len(imgdf) :
        (/\ i # j
         /\ imgdf[i].orig_name # imgdf[j].orig_name
         /\ imgdf[i].new_name # NoName
         /\ imgdf[j].new_name # NoName)
            => FullName(imgdf[i].new_name) # FullName(imgdf[j].new_name)

C8_Witness ==
    \E i \in 1..Len(imgdf) : \E j \in 1..Len(imgdf) :
        /\ i # j
        /\ imgdf[i].time_utc = imgdf[j].time_utc
        /\ imgdf[i].orig_name.ext = imgdf[j].orig_name.ext
        /\ imgdf[i].new_name # NoName
        /\ imgdf[j].new_name # NoName

\* C9: when the telemetry file or the image folder is missing, nothing is
\* processed: no telemetry CSV, no plot, no tool invocation, no file copied
\* or renamed.
C9_MissingInputStopsFirst ==
    (~logfile_exists \/ ~fs0[imagefolder].exists)
        => /\ ~navcsv.written
           /\ ~gpxplot
           /\ toolcalls = <<>>
           /\ fs = fs0

\* a trackpoint without a usable time or without usable coordinates
FaultyPoint(e) ==
    \/ e.child["time"] = Absent
    \/ ~IsGpxTime(e.child["time"])
    \/ Len(e.attrs) # 2
    \/ \E k \in 1..Len(e.attrs) : ~IsNumericText(e.attrs[k])

\* C10: every row of the exported telemetry CSV has a latitude, a
\* longitude, a datetime_utc and an epoch_utc, and a file with a faulty
\* trackpoint is not exported at all.
C10_CsvMandatoryColumns ==
    navcsv.written =>
        /\ \A i \in 1..Len(navcsv.rows) :
              /\ navcsv.rows[i].lat.kind = "num"
              /\ navcsv.rows[i].lon.kind = "num"
              /\ navcsv.rows[i].datetime_utc.kind = "datetime"
              /\ navcsv.rows[i].epoch_utc.kind = "num"
        /\ \A i \in 1..Len(gpxfile) : ~FaultyPoint(gpxfile[i])

\* the image folder exists and holds no qualifying image file
NoImages ==
    /\ fs[imagefolder].exists
    /\ {n \in Names(fs[imagefolder]) : IsJpg(n)} = {}

\* C11: with an image folder without image files, the listing, the table
\* construction and the first/last-record diagnostics all complete without
\* error, the photo table is empty, and the rename step renames no file
\* and assigns no new name.
C11_EmptyFolderNoError ==
    /\ [][(NoImages /\ pc \in {"list", "imgdf", "imgcsv"}) => pc' # "error"]_vars
    /\ []((NoImages /\ pc \in {"imgcsv", "plottimes", "rename"}) => imgdf = <<>>)
    /\ [][(imgdf = <<>> /\ pc \in {"rename", "copy", "loop"})
            => (imgdf' = imgdf /\ \A d \in Dirs : Names(fs'[d]) \subseteq Names(fs[d]) \cup Names(fs[imagefolder]))]_vars

\* the content of the photo of a row is on disk: in the source folder under
\* its original name, or in the output folder under its original or new name
PhotoPresent(row) ==
    \/ \E f \in fs[imagefolder].files :
          f.name = row.orig_name /\ f.data.photo = FullName(row.orig_name)
    \/ \E f \in fs[imgoutdir].files :
          /\ f.name \in {row.orig_name, row.new_name}
          /\ f.data.photo = FullName(row.orig_name)

\* C12: in every state, also in the middle of the copy and of the rename
\* loop, after an interruption, and when the output folder already existed
\* and the copy was skipped, every listed photo with its own original
\* filename is still present in one of the two folders.
C12_NoPhotoLost ==
    (\A i \in 1..Len(imgdf) : \A j \in 1..Len(imgdf) :
        i # j => imgdf[i].orig_name # imgdf[j].orig_name)
        => \A i \in 1..Len(imgdf) : PhotoPresent(imgdf[i])

\* the copy was skipped, the loop was interrupted after the first of two
\* photos taken in the same second was moved
C12_Witness ==
    /\ pc = "interrupted"
    /\ run = 1
    /\ fs0[imgoutdir].exists
    /\ Len(imgdf) = 2
    /\ idx = 2
    /\ imgdf[1].time_utc = imgdf[2].time_utc
    /\ imgdf[1].orig_name.ext = imgdf[2].orig_name.ext
    /\ ~HasFile(fs[imagefolder], imgdf[1].orig_name)
    /\ HasFile(fs[imagefolder], imgdf[2].orig_name)

====
